---- MODULE Spec2Model ----
(***************************************************************************)
(* ATP Explorer API (src/src/index.js): the registry loader, the periodic  *)
(* reload and the query route handlers, as a state machine.                *)
(*                                                                         *)
(* JavaScript strings are sequences of one-character strings, so that      *)
(* toLowerCase, slice and includes are computed and not assumed.  JSON     *)
(* values are tagged records [t, s]; a JavaScript object used as a map is  *)
(* a function from keys to values, read through PropGet, which also sees   *)
(* the properties every plain object inherits from Object.prototype.       *)
(* References to identity objects are positions in the snapshot's          *)
(* identities array.                                                       *)
(***************************************************************************)
EXTENDS Integers, Sequences, FiniteSets, TLC

VARIABLES fs, registry, builtFrom, proc, last

vars == <<fs, registry, builtFrom, proc, last>>

(***************************************************************************)
(* Bounds                                                                  *)
(***************************************************************************)
\* most files in the identities directory
MaxFiles == 3

(***************************************************************************)
(* JavaScript primitives                                                   *)
(***************************************************************************)
Min(a, b) == IF a < b THEN a ELSE b

Max(a, b) == IF a > b THEN a ELSE b

UpperToLower ==
  [c \in {"A", "B", "C", "D", "E", "F", "G", "H", "I", "J", "K", "L", "M",
           "N", "O", "P", "Q", "R", "S", "T", "U", "V", "W", "X", "Y", "Z"} |->
     CASE c = "A" -> "a" [] c = "B" -> "b" [] c = "C" -> "c" [] c = "D" -> "d"
       [] c = "E" -> "e" [] c = "F" -> "f" [] c = "G" -> "g" [] c = "H" -> "h"
       [] c = "I" -> "i" [] c = "J" -> "j" [] c = "K" -> "k" [] c = "L" -> "l"
       [] c = "M" -> "m" [] c = "N" -> "n" [] c = "O" -> "o" [] c = "P" -> "p"
       [] c = "Q" -> "q" [] c = "R" -> "r" [] c = "S" -> "s" [] c = "T" -> "t"
       [] c = "U" -> "u" [] c = "V" -> "v" [] c = "W" -> "w" [] c = "X" -> "x"
       [] c = "Y" -> "y" [] c = "Z" -> "z"]

LowerChar(c) == IF c \in DOMAIN UpperToLower THEN UpperToLower[c] ELSE c

\* String.prototype.toLowerCase
toLowerCase(s) == [i \in 1..Len(s) |-> LowerChar(s[i])]

\* String.prototype.slice(-n)
sliceLast(s, n) == IF Len(s) <= n THEN s ELSE SubSeq(s, Len(s) - n + 1, Len(s))

\* String.prototype.includes
includes(s, q) == \E i \in 0..(Len(s) - Len(q)) : SubSeq(s, i + 1, i + Len(q)) = q

\* Array.prototype.slice(start, end): negative arguments count from the end
RelIndex(k, n) == IF k < 0 THEN Max(n + k, 0) ELSE Min(k, n)

slice(a, start, end) ==
  LET from == RelIndex(start, Len(a))
      to == RelIndex(end, Len(a))
  IN IF from < to THEN SubSeq(a, from + 1, to) ELSE <<>>

Digits == {"0", "1", "2", "3", "4", "5", "6", "7", "8", "9"}

DigitVal(c) ==
  CASE c = "0" -> 0 [] c = "1" -> 1 [] c = "2" -> 2 [] c = "3" -> 3 [] c = "4" -> 4
    [] c = "5" -> 5 [] c = "6" -> 6 [] c = "7" -> 7 [] c = "8" -> 8 [] c = "9" -> 9

RECURSIVE SkipSpaces(_)
SkipSpaces(s) == IF s # <<>> /\ Head(s) = " " THEN SkipSpaces(Tail(s)) ELSE s

RECURSIVE DigitPrefix(_, _, _)
\* the value of the longest prefix of digits of s; any tells whether one was read
DigitPrefix(s, acc, any) ==
  IF s # <<>> /\ Head(s) \in Digits
    THEN DigitPrefix(Tail(s), 10 * acc + DigitVal(Head(s)), TRUE)
    ELSE [nan |-> ~any, n |-> acc]

\* parseInt(string) in radix 10: leading blanks, a sign, then digits; NaN if
\* no digit follows (the 0x prefix is not among the inputs of this model)
parseInt(s) ==
  LET t == SkipSpaces(s)
      neg == t # <<>> /\ Head(t) = "-"
      signed == t # <<>> /\ Head(t) \in {"-", "+"}
      r == DigitPrefix(IF signed THEN Tail(t) ELSE t, 0, FALSE)
  IN [nan |-> r.nan, n |-> IF neg THEN 0 - r.n ELSE r.n]

(***************************************************************************)
(* JSON values                                                             *)
(***************************************************************************)
Undef == [t |-> "undefined", s |-> <<>>]

Null == [t |-> "null", s |-> <<>>]

Str(s) == [t |-> "string", s |-> s]

\* truthiness of a JSON value
Truthy(v) == (v.t = "string" /\ v.s # <<>>) \/ v.t \in {"number", "object"}

\* a || b
OrElse(a, b) == IF Truthy(a) THEN a ELSE b

\* properties a plain object inherits from Object.prototype
ObjectPrototypeKeys ==
  { <<"c", "o", "n", "s", "t", "r", "u", "c", "t", "o", "r">>,
    <<"_", "_", "p", "r", "o", "t", "o", "_", "_">>,
    <<"t", "o", "S", "t", "r", "i", "n", "g">> }

\* obj[key] on a plain object: own property, inherited property or undefined
PropGet(obj, key) ==
  IF key \in DOMAIN obj THEN [kind |-> "own", ref |-> obj[key]]
  ELSE IF key \in ObjectPrototypeKeys THEN [kind |-> "inherited", ref |-> 0]
  ELSE [kind |-> "undefined", ref |-> 0]

\* obj[key] = ref
PropSet(obj, key, ref) == [k \in DOMAIN obj \cup {key} |-> IF k = key THEN ref ELSE obj[k]]

EmptyObject == [k \in {} |-> 0]

(***************************************************************************)
(* Registry documents                                                      *)
(***************************************************************************)
NoMap == [present |-> FALSE, entries |-> <<>>]

\* an object literal {k1: v1, k2: v2}, its entries in insertion order
Map(entries) == [present |-> TRUE, entries |-> entries]

Entry(k, v) == [k |-> k, v |-> v]

NoGpg == [present |-> FALSE, fingerprint |-> Undef]

NoWallet == [present |-> FALSE, address |-> Undef, proof |-> Undef]

NoPoe == [present |-> FALSE, txid |-> Undef, network |-> Undef, blockHeight |-> Undef]

\* the raw object {}: every property the normalizer reads is undefined
EmptyRaw ==
  [atp |-> Undef, name |-> Undef, description |-> Undef, gpg |-> NoGpg,
   gpgFingerprint |-> Undef, platforms |-> NoMap, wallet |-> NoWallet,
   wallets |-> NoMap, walletProof |-> Undef, proofOfExistence |-> NoPoe,
   proof_of_existence |-> NoPoe, signature |-> Undef]

FPA == <<"9", "A", "B", "1", "2", "C", "D", "3", "4", "E", "F", "5", "6", "A", "B", "7", "8">>

FPB == <<"7", "0", "a", "0", "a", "0", "a", "0", "a", "E", "F", "5", "6", "A", "B", "7", "8">>

FPC == <<"E", "F", "5", "6", "A", "B", "7", "8">>

\* nested gpg and wallet objects, current proofOfExistence
DocA ==
  [EmptyRaw EXCEPT
     !.name = Str(<<"S", "h", "r">>),
     !.gpg = [present |-> TRUE, fingerprint |-> Str(FPA)],
     !.platforms = Map(<<Entry(<<"T", "w", "i", "t", "t", "e", "r">>, Str(<<"S", "h", "r">>))>>),
     !.wallet = [present |-> TRUE, address |-> Str(<<"1", "A">>), proof |-> Str(<<"p", "f">>)],
     !.proofOfExistence = [present |-> TRUE, txid |-> Str(<<"t", "1">>),
                           network |-> Str(<<"b", "t">>), blockHeight |-> Str(<<"8">>)],
     !.signature = Str(<<"s", "g">>)]

\* legacy flat shape, an empty handle and an empty address
DocB ==
  [EmptyRaw EXCEPT
     !.atp = Str(<<"0", ".", "3">>),
     !.name = Str(<<"b", "o", "t">>),
     !.description = Str(<<"a", " ", "S", "h", "r">>),
     !.gpgFingerprint = Str(FPB),
     !.platforms = Map(<<Entry(<<"t", "w", "i", "t", "t", "e", "r">>, Str(<<>>)),
                         Entry(<<"G", "H">>, Str(<<"B", "o", "t">>))>>),
     !.wallets = Map(<<Entry(<<"b", "t", "c">>, Str(<<>>)),
                       Entry(<<"e", "t", "h">>, Str(<<"1", "a">>))>>),
     !.proof_of_existence = [present |-> TRUE, txid |-> Str(<<"t", "2">>),
                             network |-> Str(<<"b", "t">>), blockHeight |-> Undef]]

\* an 8-character fingerprint equal to FPA's short form, a name and a handle
\* that collide with DocA's, a platform named like an Object.prototype method,
\* a wallet object without address next to a flat map
DocC ==
  [EmptyRaw EXCEPT
     !.name = Str(<<"S", "H", "R">>),
     !.gpgFingerprint = Str(FPC),
     !.platforms = Map(<<Entry(<<"t", "w", "i", "t", "t", "e", "r">>, Str(<<"S", "H", "R">>)),
                         Entry(<<"t", "o", "S", "t", "r", "i", "n", "g">>, Str(<<"x">>))>>),
     !.wallet = [present |-> TRUE, address |-> Undef, proof |-> Undef],
     !.wallets = Map(<<Entry(<<"b", "t", "c">>, Str(<<"1", "x", "y">>))>>)]

\* a handle that is JSON null
DocBad ==
  [EmptyRaw EXCEPT
     !.name = Str(<<"b", "a", "d">>),
     !.platforms = Map(<<Entry(<<"t", "w", "i", "t", "t", "e", "r">>, Null)>>)]

\* a directory entry: whether its name ends in .json, and what JSON.parse of
\* its content gives ("corrupt": a SyntaxError, "null": null, "object": raw)
File(json, content, raw) == [json |-> json, content |-> content, raw |-> raw]

FilePool ==
  { File(TRUE, "object", DocA), File(TRUE, "object", DocB), File(TRUE, "object", DocC),
    File(TRUE, "object", DocBad), File(TRUE, "object", EmptyRaw),
    File(TRUE, "corrupt", EmptyRaw), File(TRUE, "null", EmptyRaw),
    File(FALSE, "object", DocA) }

(***************************************************************************)
(* normalizeIdentity                                                       *)
(***************************************************************************)
normalizeIdentity(raw) ==
  [atp |-> OrElse(raw.atp, Str(<<"0", ".", "4">>)),
   name |-> raw.name,
   description |-> raw.description,
   gpgFingerprint |->
     OrElse(IF raw.gpg.present THEN raw.gpg.fingerprint ELSE Undef, raw.gpgFingerprint),
   platforms |-> IF raw.platforms.present THEN raw.platforms.entries ELSE <<>>,
   wallets |->
     IF raw.wallet.present THEN <<Entry(<<"b", "t", "c">>, raw.wallet.address)>>
     ELSE IF raw.wallets.present THEN raw.wallets.entries ELSE <<>>,
   walletProof |->
     OrElse(IF raw.wallet.present THEN raw.wallet.proof ELSE Undef, raw.walletProof),
   proofOfExistence |->
     IF raw.proofOfExistence.present THEN raw.proofOfExistence ELSE raw.proof_of_existence,
   signature |-> raw.signature]

(***************************************************************************)
(* loadRegistry                                                            *)
(***************************************************************************)
RECURSIVE ReadIdentitiesAbortOnError(_)
ReadIdentitiesAbortOnError(files) ==
  IF files = <<>> THEN <<>>
  ELSE LET f == Head(files)
       IN IF ~f.json THEN ReadIdentitiesAbortOnError(Tail(files))
          ELSE IF f.content = "object"
            THEN <<normalizeIdentity(f.raw)>> \o ReadIdentitiesAbortOnError(Tail(files))
            ELSE <<>>

RECURSIVE ReadIdentities(_)
\* the file loop: a name not ending in .json is filtered out; a SyntaxError of
\* JSON.parse and the TypeError of normalizeIdentity(null) are caught and the
\* file is skipped
ReadIdentities(files) ==
  IF files = <<>> THEN <<>>
  ELSE LET f == Head(files)
       IN IF f.json /\ f.content = "object"
            THEN <<normalizeIdentity(f.raw)>> \o ReadIdentities(Tail(files))
            ELSE ReadIdentities(Tail(files))

EmptyIndexes ==
  [threw |-> FALSE, byFingerprint |-> EmptyObject, byName |-> EmptyObject,
   byPlatform |-> EmptyObject, byWallet |-> EmptyObject]

\* v.toLowerCase() is a TypeError unless v is a string
Throws(ix) == [ix EXCEPT !.threw = TRUE]

IndexFingerprintNoShortForm(ix, identity, ref) ==
  LET v == identity.gpgFingerprint
      fp == toLowerCase(v.s)
  IN IF ~Truthy(v) THEN ix
     ELSE IF v.t # "string" THEN Throws(ix)
     ELSE [ix EXCEPT !.byFingerprint = PropSet(PropSet(@, fp, ref), sliceLast(fp, 16), ref)]

PropSetIfAbsent(obj, key, ref) == IF key \in DOMAIN obj THEN obj ELSE PropSet(obj, key, ref)

IndexFingerprintFirstWins(ix, identity, ref) ==
  LET v == identity.gpgFingerprint
      fp == toLowerCase(v.s)
  IN IF ~Truthy(v) THEN ix
     ELSE IF v.t # "string" THEN Throws(ix)
     ELSE [ix EXCEPT !.byFingerprint =
             PropSetIfAbsent(PropSetIfAbsent(PropSetIfAbsent(@, fp, ref),
                                             sliceLast(fp, 16), ref),
                             sliceLast(fp, 8), ref)]

IndexFingerprint(ix, identity, ref) ==
  LET v == identity.gpgFingerprint
      fp == toLowerCase(v.s)
  IN IF ~Truthy(v) THEN ix
     ELSE IF v.t # "string" THEN Throws(ix)
     ELSE [ix EXCEPT !.byFingerprint =
             PropSet(PropSet(PropSet(@, fp, ref), sliceLast(fp, 16), ref),
                     sliceLast(fp, 8), ref)]

\* the first identity that has a name keeps it
IndexNameFirstWins(ix, identity, ref) ==
  LET v == identity.name
  IN IF ~Truthy(v) THEN ix
     ELSE IF v.t # "string" THEN Throws(ix)
     ELSE [ix EXCEPT !.byName = PropSetIfAbsent(@, toLowerCase(v.s), ref)]

IndexName(ix, identity, ref) ==
  LET v == identity.name
  IN IF ~Truthy(v) THEN ix
     ELSE IF v.t # "string" THEN Throws(ix)
     ELSE [ix EXCEPT !.byName = PropSet(@, toLowerCase(v.s), ref)]

RECURSIVE IndexPlatforms(_, _, _)
\* byPlatform[p] that is only inherited is truthy, so no own map is created
\* and the handle is written to the inherited object, not to the index
IndexPlatforms(ix, entries, ref) ==
  IF entries = <<>> \/ ix.threw THEN ix
  ELSE LET e == Head(entries)
           p == toLowerCase(e.k)
           got == PropGet(ix.byPlatform, p)
           sub == IF got.kind = "own" THEN got.ref ELSE EmptyObject
       IN IF e.v.t # "string" THEN Throws(ix)
          ELSE IF got.kind = "inherited" THEN IndexPlatforms(ix, Tail(entries), ref)
          ELSE IndexPlatforms(
                 [ix EXCEPT !.byPlatform =
                    PropSet(@, p, PropSet(sub, toLowerCase(e.v.s), ref))],
                 Tail(entries), ref)

RECURSIVE IndexWalletsKeepingCase(_, _, _)
\* the address is the key as written, not lowercased
IndexWalletsKeepingCase(ix, entries, ref) ==
  IF entries = <<>> \/ ix.threw THEN ix
  ELSE LET e == Head(entries)
       IN IF ~Truthy(e.v) THEN IndexWalletsKeepingCase(ix, Tail(entries), ref)
          ELSE IF e.v.t # "string" THEN Throws(ix)
          ELSE IndexWalletsKeepingCase([ix EXCEPT !.byWallet = PropSet(@, e.v.s, ref)],
                                       Tail(entries), ref)

RECURSIVE IndexWallets(_, _, _)
IndexWallets(ix, entries, ref) ==
  IF entries = <<>> \/ ix.threw THEN ix
  ELSE LET e == Head(entries)
       IN IF ~Truthy(e.v) THEN IndexWallets(ix, Tail(entries), ref)
          ELSE IF e.v.t # "string" THEN Throws(ix)
          ELSE IndexWallets([ix EXCEPT !.byWallet = PropSet(@, toLowerCase(e.v.s), ref)],
                            Tail(entries), ref)

\* one round of the index loop for identities[ref]
IndexIdentity(ix, identity, ref) ==
  LET a == IndexFingerprint(ix, identity, ref)
      b == IF a.threw THEN a ELSE IndexName(a, identity, ref)
      c == IF b.threw THEN b ELSE IndexPlatforms(b, identity.platforms, ref)
  IN IF c.threw THEN c ELSE IndexWallets(c, identity.wallets, ref)

RECURSIVE BuildIndexes(_, _, _)
BuildIndexes(ix, identities, ref) ==
  IF ref > Len(identities) \/ ix.threw THEN ix
  ELSE BuildIndexes(IndexIdentity(ix, identities[ref], ref), identities, ref + 1)

\* the value returned when the identities directory does not exist
MissingRegistry == [identities |-> <<>>, indexes |-> EmptyObject]

\* loadRegistry over the directory dir = [exists, files]; vanishes: the
\* directory is removed between existsSync and readdirSync.  The result is
\* [threw, value]: threw when the call ends in an exception
loadRegistry(dir, vanishes) ==
  IF ~dir.exists THEN [threw |-> FALSE, value |-> MissingRegistry]
  ELSE IF vanishes THEN [threw |-> TRUE, value |-> MissingRegistry]
  ELSE LET identities == ReadIdentities(dir.files)
           ix == BuildIndexes(EmptyIndexes, identities, 1)
       IN [threw |-> ix.threw,
           value |-> [identities |-> identities,
                      indexes |-> [byFingerprint |-> ix.byFingerprint,
                                   byName |-> ix.byName,
                                   byPlatform |-> ix.byPlatform,
                                   byWallet |-> ix.byWallet]]]

(***************************************************************************)
(* Route handlers                                                          *)
(***************************************************************************)
\* a query-string or path parameter: absent, or a string
Absent == [present |-> FALSE, s |-> <<>>]

Param(s) == [present |-> TRUE, s |-> s]

\* parseInt(p) || fallback, where an absent p was defaulted to fallback
ParseOr(p, fallback) ==
  LET r == parseInt(p.s)
  IN IF ~p.present \/ r.nan \/ r.n = 0 THEN fallback ELSE r.n

\* the proof of existence is passed on whole
summarizeFullProof(identity) ==
  [name |-> identity.name,
   gpgFingerprint |-> identity.gpgFingerprint,
   description |-> identity.description,
   platforms |-> identity.platforms,
   proofOfExistence |-> identity.proofOfExistence]

summarize(identity) ==
  [name |-> identity.name,
   gpgFingerprint |-> identity.gpgFingerprint,
   description |-> identity.description,
   platforms |-> identity.platforms,
   proofOfExistence |->
     IF identity.proofOfExistence.present
       THEN [isNull |-> FALSE, txid |-> identity.proofOfExistence.txid,
             network |-> identity.proofOfExistence.network]
       ELSE [isNull |-> TRUE, txid |-> Undef, network |-> Undef]]

MapSummarize(identities) == [i \in 1..Len(identities) |-> summarize(identities[i])]

\* an exception thrown inside a handler: express answers 500
ServerError == [status |-> 500, kind |-> "TypeError"]

NotFound(key) == [status |-> 404, kind |-> "NotFound", key |-> key]

\* res.json(v) for the value a property read gave: an identity of the
\* snapshot, or an object inherited from Object.prototype
JsonOf(reg, got) ==
  IF got.kind = "own"
    THEN [status |-> 200, kind |-> "identity", body |-> reg.identities[got.ref]]
    ELSE [status |-> 200, kind |-> "inherited"]

\* GET /v1/identities
List(reg, limit, offset) ==
  LET l == Min(ParseOr(limit, 100), 1000)
      o == ParseOr(offset, 0)
  IN [status |-> 200, kind |-> "list", total |-> Len(reg.identities), limit |-> l,
      offset |-> o, identities |-> MapSummarize(slice(reg.identities, o, o + l))]

\* the three point lookups on one index: index[key.toLowerCase()]
PointLookup(reg, indexName, key) ==
  IF indexName \notin DOMAIN reg.indexes THEN ServerError
  ELSE LET got == PropGet(reg.indexes[indexName], toLowerCase(key.s))
       IN IF got.kind = "undefined" THEN NotFound(<<key.s>>) ELSE JsonOf(reg, got)

\* GET /v1/identities/:fingerprint
GetByFingerprint(reg, fingerprint) == PointLookup(reg, "byFingerprint", fingerprint)

\* GET /v1/lookup/name/:name
LookupName(reg, name) == PointLookup(reg, "byName", name)

\* GET /v1/lookup/wallet/:address
LookupWallet(reg, address) == PointLookup(reg, "byWallet", address)

\* GET /v1/lookup/platform/:platform/:handle.  A platform index that is only
\* inherited is an object of the runtime: a handle read from it is inherited
\* or undefined
LookupPlatform(reg, platform, handle) ==
  IF "byPlatform" \notin DOMAIN reg.indexes THEN ServerError
  ELSE LET platformIndex == PropGet(reg.indexes.byPlatform, toLowerCase(platform.s))
           h == toLowerCase(handle.s)
           identity ==
             IF platformIndex.kind = "own" THEN PropGet(platformIndex.ref, h)
             ELSE PropGet(EmptyObject, h)
       IN IF platformIndex.kind = "undefined"
            THEN [status |-> 404, kind |-> "PlatformUnknown", platform |-> platform.s,
                  availablePlatforms |-> DOMAIN reg.indexes.byPlatform]
          ELSE IF identity.kind = "undefined" THEN NotFound(<<platform.s, handle.s>>)
          ELSE JsonOf(reg, identity)

\* v?.toLowerCase().includes(query): "skip" for null and undefined, "throw"
\* for any other value that is not a string
FieldMatch(v, query) ==
  IF v.t \in {"undefined", "null"} THEN "skip"
  ELSE IF v.t # "string" THEN "throw"
  ELSE IF includes(toLowerCase(v.s), query) THEN "yes" ELSE "no"

RECURSIVE HandlesMatch(_, _)
\* handle.toLowerCase().includes(query) over Object.values(platforms)
HandlesMatch(entries, query) ==
  IF entries = <<>> THEN "no"
  ELSE IF Head(entries).v.t # "string" THEN "throw"
  ELSE IF includes(toLowerCase(Head(entries).v.s), query) THEN "yes"
  ELSE HandlesMatch(Tail(entries), query)

\* the filter callback of search
SearchMatch(identity, query) ==
  LET n == FieldMatch(identity.name, query)
      d == FieldMatch(identity.description, query)
      h == HandlesMatch(identity.platforms, query)
      f == FieldMatch(identity.gpgFingerprint, query)
  IN IF n \in {"yes", "throw"} THEN n
     ELSE IF d \in {"yes", "throw"} THEN d
     ELSE IF h \in {"yes", "throw"} THEN h
     ELSE IF f \in {"yes", "throw"} THEN f
     ELSE "no"

RECURSIVE Filter(_, _)
Filter(identities, query) ==
  IF identities = <<>> THEN <<>>
  ELSE IF SearchMatch(Head(identities), query) = "yes"
    THEN <<Head(identities)>> \o Filter(Tail(identities), query)
    ELSE Filter(Tail(identities), query)

QueryAcceptsOneCharacter(q) == ~q.present \/ Len(q.s) < 1

\* !q || q.length < 2
QueryTooShort(q) == ~q.present \/ Len(q.s) < 2

\* GET /v1/search
Search(reg, q, limit) ==
  IF QueryTooShort(q) THEN [status |-> 400, kind |-> "InvalidQuery"]
  ELSE LET query == toLowerCase(q.s)
           l == Min(ParseOr(limit, 20), 100)
           results == MapSummarize(slice(Filter(reg.identities, query), 0, l))
       IN IF \E i \in 1..Len(reg.identities) :
               SearchMatch(reg.identities[i], query) = "throw"
            THEN ServerError
            ELSE [status |-> 200, kind |-> "search", query |-> q.s,
                  count |-> Len(results), results |-> results]

\* what + 1 makes of a value that is not a number: a string, not a count
Concatenated == 0 - 1

\* (old || 0) + 1
Increment(got) ==
  IF got.kind = "undefined" THEN 1
  ELSE IF got.kind = "inherited" \/ got.ref = Concatenated THEN Concatenated
  ELSE got.ref + 1

RECURSIVE CountKeys(_, _, _)
\* counts[k] = (counts[k] || 0) + 1 for the entries that pass onlyTruthy
CountKeys(counts, entries, onlyTruthy) ==
  IF entries = <<>> THEN counts
  ELSE LET e == Head(entries)
       IN IF onlyTruthy /\ ~Truthy(e.v) THEN CountKeys(counts, Tail(entries), onlyTruthy)
          ELSE CountKeys(PropSet(counts, e.k, Increment(PropGet(counts, e.k))),
                         Tail(entries), onlyTruthy)

RECURSIVE StatsLoop(_, _)
StatsLoop(acc, identities) ==
  IF identities = <<>> THEN acc
  ELSE StatsLoop(
         [platforms |-> CountKeys(acc.platforms, Head(identities).platforms, FALSE),
          chains |-> CountKeys(acc.chains, Head(identities).wallets, TRUE)],
         Tail(identities))

\* GET /v1/stats (lastUpdated, the wall clock, is left out)
Stats(reg) ==
  LET acc == StatsLoop([platforms |-> EmptyObject, chains |-> EmptyObject], reg.identities)
  IN [status |-> 200, kind |-> "stats", totalIdentities |-> Len(reg.identities),
      platforms |-> acc.platforms, chains |-> acc.chains]

\* GET /health
Health(reg) == [status |-> 200, kind |-> "health", identityCount |-> Len(reg.identities)]

\* a request: the route and its two parameters
Request(op, a, b) == [op |-> op, a |-> a, b |-> b]

\* the response the handler of req.op computes when registry is reg
Respond(reg, req) ==
  CASE req.op = "list" -> List(reg, req.a, req.b)
    [] req.op = "fingerprint" -> GetByFingerprint(reg, req.a)
    [] req.op = "name" -> LookupName(reg, req.a)
    [] req.op = "platform" -> LookupPlatform(reg, req.a, req.b)
    [] req.op = "wallet" -> LookupWallet(reg, req.a)
    [] req.op = "search" -> Search(reg, req.a, req.b)
    [] req.op = "stats" -> Stats(reg)
    [] req.op = "health" -> Health(reg)

(***************************************************************************)
(* Inputs                                                                  *)
(***************************************************************************)
Range(s) == {s[i] : i \in DOMAIN s}

RECURSIVE Listings(_, _)
\* the sequences of at most n different elements of S: a directory listing
\* names each of its entries once
Listings(S, n) ==
  IF n = 0 THEN {<<>>}
  ELSE LET shorter == Listings(S, n - 1)
       IN shorter \cup UNION {{Append(s, x) : x \in S \ Range(s)} :
                                s \in {r \in shorter : Len(r) = n - 1}}

MissingDir == [exists |-> FALSE, files |-> <<>>]

\* the identities directory when the process starts: missing, or listing
\* fewer than MaxFiles files, so that WriteFile can still add one
StartDirs ==
  {MissingDir} \cup {[exists |-> TRUE, files |-> fl] : fl \in Listings(FilePool, MaxFiles - 1)}

Constructor == <<"c", "o", "n", "s", "t", "r", "u", "c", "t", "o", "r">>

ListLimits == {Absent, Param(<<"0">>), Param(<<"-", "1">>), Param(<<"2">>), Param(<<"2", "0", "0", "0">>), Param(<<"a", "b">>)}

ListOffsets == {Param(<<"1">>), Param(<<"-", "1">>), Param(<<"9">>), Param(<<"z", "z">>)}

ListRequests ==
  {Request("list", l, Absent) : l \in ListLimits}
    \cup {Request("list", l, o) : l \in {Absent, Param(<<"2">>), Param(<<"-", "1">>)}, o \in ListOffsets}

FingerprintKeys ==
  {FPA, toLowerCase(FPA), sliceLast(FPA, 16), FPC, toLowerCase(FPC), FPB,
   toLowerCase(sliceLast(FPB, 16)), Constructor, <<"f", "f", "f", "f">>}

NameKeys == {<<"S", "h", "r">>, <<"B", "O", "T">>, <<"z", "z">>, Constructor}

PlatformKeys == {<<"T", "W", "I", "T", "T", "E", "R">>, <<"g", "h">>, <<"z", "z">>, Constructor}

HandleKeys == {<<"s", "h", "r">>, <<"B", "o", "t">>, <<"z", "z">>}

WalletKeys == {<<"1", "A">>, <<"1", "a">>, <<"1", "X", "Y">>, <<"z", "z">>}

SearchQueries == {Absent, Param(<<>>), Param(<<"s">>), Param(<<"s", "h">>), Param(<<"S", "H">>), Param(<<"B", "o">>), Param(<<"7", "8">>), Param(<<"z", "z">>)}

SearchLimits == {Param(<<"1">>), Param(<<"-", "1">>), Param(<<"2", "0", "0">>)}

SearchRequests ==
  {Request("search", q, Absent) : q \in SearchQueries}
    \cup {Request("search", Param(<<"s", "h">>), l) : l \in SearchLimits}

(***************************************************************************)
(* State machine                                                           *)
(*   fs         the identities directory: [exists, files]                  *)
(*   registry   the module variable registry: [identities, indexes]        *)
(*   builtFrom  the directory state the last completed loadRegistry read   *)
(*   proc       "serving", or how the process ended                        *)
(*   last       the request the running handler answered, and its response *)
(***************************************************************************)
NoExchange == [req |-> Request("none", Absent, Absent), resp |-> [status |-> 0, kind |-> "none"]]

\* swaps the identities array and leaves the index maps of the old snapshot
\* in place (a snapshot without index maps is swapped whole)
PublishIdentitiesOnly(old, new) ==
  IF DOMAIN new.indexes = {} THEN new
  ELSE [identities |-> new.identities, indexes |-> old.indexes]

\* registry = loadRegistry(): the assignment that publishes a snapshot
Publish(old, new) == new

\* module evaluation: let registry = loadRegistry(); an exception ends the
\* process before app.listen
Init ==
  /\ fs \in StartDirs
  /\ LET r == loadRegistry(fs, FALSE)
     IN /\ proc = IF r.threw THEN "crashed_startup" ELSE "serving"
        /\ registry = r.value
  /\ builtFrom = fs
  /\ last = NoExchange

\* no callback is running: the event loop is free to start one
Idle == proc = "serving" /\ last = NoExchange

\* the setInterval callback.  An exception leaves it uncaught: the process
\* ends with the assignment not done
Reload ==
  /\ Idle
  /\ \E vanishes \in BOOLEAN :
       /\ vanishes => fs.exists
       /\ LET r == loadRegistry(fs, vanishes)
          IN IF r.threw
               THEN /\ proc' = "crashed_reload"
                    /\ UNCHANGED <<registry, builtFrom>>
               ELSE /\ registry' = Publish(registry, r.value)
                    /\ builtFrom' = fs
                    /\ proc' = proc
       /\ fs' = IF vanishes THEN MissingDir ELSE fs
  /\ UNCHANGED last

\* the registry's owner adds a file to the directory
WriteFile ==
  /\ Idle
  /\ fs.exists
  /\ Len(fs.files) < MaxFiles
  /\ \E f \in FilePool \ Range(fs.files) : fs' = [fs EXCEPT !.files = Append(@, f)]
  /\ UNCHANGED <<registry, builtFrom, proc, last>>

\* the directory is removed or unmounted
RemoveDir ==
  /\ Idle
  /\ fs.exists
  /\ fs' = MissingDir
  /\ UNCHANGED <<registry, builtFrom, proc, last>>

\* what a route handler that runs now leaves in last: it reads the current
\* registry and runs to completion
Answer(req) == [req |-> req, resp |-> Respond(registry, req)]

\* a List handler that orders the shared identities array in place
\* (Array.prototype.reverse) before it slices the page
HandleListReversingInPlace ==
  /\ Idle
  /\ \E req \in ListRequests : last' = Answer(req)
  /\ registry' = [registry EXCEPT !.identities =
                    [i \in DOMAIN registry.identities |->
                       registry.identities[Len(registry.identities) + 1 - i]]]
  /\ UNCHANGED <<fs, builtFrom, proc>>

HandleList ==
  /\ Idle
  /\ \E req \in ListRequests : last' = Answer(req)
  /\ UNCHANGED <<fs, registry, builtFrom, proc>>

HandleFingerprint ==
  /\ Idle
  /\ \E k \in FingerprintKeys : last' = Answer(Request("fingerprint", Param(k), Absent))
  /\ UNCHANGED <<fs, registry, builtFrom, proc>>

HandleName ==
  /\ Idle
  /\ \E k \in NameKeys : last' = Answer(Request("name", Param(k), Absent))
  /\ UNCHANGED <<fs, registry, builtFrom, proc>>

HandlePlatform ==
  /\ Idle
  /\ \E p \in PlatformKeys, h \in HandleKeys :
       last' = Answer(Request("platform", Param(p), Param(h)))
  /\ UNCHANGED <<fs, registry, builtFrom, proc>>

HandleWallet ==
  /\ Idle
  /\ \E k \in WalletKeys : last' = Answer(Request("wallet", Param(k), Absent))
  /\ UNCHANGED <<fs, registry, builtFrom, proc>>

HandleSearch ==
  /\ Idle
  /\ \E req \in SearchRequests : last' = Answer(req)
  /\ UNCHANGED <<fs, registry, builtFrom, proc>>

HandleStats ==
  /\ Idle
  /\ last' = Answer(Request("stats", Absent, Absent))
  /\ UNCHANGED <<fs, registry, builtFrom, proc>>

HandleHealth ==
  /\ Idle
  /\ last' = Answer(Request("health", Absent, Absent))
  /\ UNCHANGED <<fs, registry, builtFrom, proc>>

\* the handler has sent its response and returns to the event loop
Return ==
  /\ proc = "serving"
  /\ last # NoExchange
  /\ last' = NoExchange
  /\ UNCHANGED <<fs, registry, builtFrom, proc>>

Next ==
  \/ Reload
  \/ WriteFile
  \/ RemoveDir
  \/ HandleList
  \/ HandleFingerprint
  \/ HandleName
  \/ HandlePlatform
  \/ HandleWallet
  \/ HandleSearch
  \/ HandleStats
  \/ HandleHealth
  \/ Return

Spec == Init /\ [][Next]_vars

(***************************************************************************)
(* Properties                                                              *)
(***************************************************************************)
\* the snapshot a complete build of the directory state builtFrom gives
BuiltSnapshot == loadRegistry(builtFrom, FALSE).value

Answered == proc = "serving" /\ last # NoExchange

\* C1: every response is the response its handler computes from one whole
\* snapshot, the result of one complete build of the directory; it is never
\* computed from parts of two snapshots.
C1_ResponseFromOneSnapshot == Answered => last.resp = Respond(BuiltSnapshot, last.req)

\* C1 witness: a reload replaced the startup snapshot (the listing it read is
\* longer than any the process starts with) and a platform lookup was then
\* answered with the list of platforms of the new snapshot
C1_Witness ==
  /\ Answered
  /\ Len(builtFrom.files) = MaxFiles
  /\ last.req.op = "platform"
  /\ last.resp.kind = "PlatformUnknown"
  /\ last.resp.availablePlatforms # {}

\* C2: after a build against a missing identities directory every query
\* completes without raising an exception, with an empty result or a
\* NotFound / PlatformUnknown outcome.
C2_MissingDirectoryQueriesSucceed ==
  (Answered /\ ~builtFrom.exists) =>
    /\ registry.identities = <<>>
    /\ last.resp.status # 500
    /\ last.req.op \in {"fingerprint", "name", "wallet"} => last.resp.kind = "NotFound"
    /\ last.req.op = "platform" => last.resp.kind \in {"NotFound", "PlatformUnknown"}

\* C3: a failed rebuild in a refresh cycle does not terminate the process.
C3_FailedRebuildIsNotFatal == proc # "crashed_reload"

\* the keys the index loop writes for an identity's fingerprint
FingerprintForms(identity) ==
  LET v == identity.gpgFingerprint
      fp == toLowerCase(v.s)
  IN IF v.t = "string" /\ v.s # <<>> THEN {fp, sliceLast(fp, 16), sliceLast(fp, 8)} ELSE {}

\* identity's fingerprint ends with key, letter case aside
SharesSuffix(identity, key) ==
  LET v == identity.gpgFingerprint
  IN v.t = "string" /\ sliceLast(toLowerCase(v.s), Len(key)) = key

Found(identity) == [status |-> 200, kind |-> "identity", body |-> identity]

\* C4: for an identity whose fingerprint F has at least 16 characters, Get by
\* fingerprint with F, F's last 16 or F's last 8 characters, in any letter
\* case, returns that identity when no other identity's fingerprint ends with
\* the key used.
C4_FingerprintFormsFindIdentity ==
  (Answered /\ last.req.op = "fingerprint") =>
    LET ids == registry.identities
        key == toLowerCase(last.req.a.s)
    IN \A i \in DOMAIN ids :
         ( /\ ids[i].gpgFingerprint.t = "string"
           /\ Len(ids[i].gpgFingerprint.s) >= 16
           /\ key \in FingerprintForms(ids[i])
           /\ \A j \in DOMAIN ids \ {i} : ~SharesSuffix(ids[j], key) )
         => last.resp = Found(ids[i])

\* C4 witness: the 8-character short form, in lower case, finds the identity
\* with the 17-character fingerprint FPA among several identities
C4_Witness ==
  /\ Answered
  /\ last.req = Request("fingerprint", Param(toLowerCase(FPC)), Absent)
  /\ Len(registry.identities) >= 2
  /\ last.resp.kind = "identity"
  /\ last.resp.body.gpgFingerprint = Str(FPA)
  /\ \E i \in DOMAIN registry.identities :
       /\ registry.identities[i].gpgFingerprint = Str(FPA)
       /\ \A j \in DOMAIN registry.identities \ {i} :
            ~SharesSuffix(registry.identities[j], toLowerCase(FPC))

\* two identities, i loaded before j, with different fingerprints that have
\* the same last 8 characters
SameShortForm(ids, i, j) ==
  /\ i < j
  /\ ids[i].gpgFingerprint.t = "string"
  /\ ids[j].gpgFingerprint.t = "string"
  /\ ids[i].gpgFingerprint.s # <<>>
  /\ ids[i].gpgFingerprint.s # ids[j].gpgFingerprint.s
  /\ sliceLast(ids[i].gpgFingerprint.s, 8) = sliceLast(ids[j].gpgFingerprint.s, 8)

\* C5 as stated: of two identities whose fingerprints share the last 8
\* characters, the 8-character form returns the later-loaded one and each is
\* returned by its own full fingerprint.
C5_EachFullFingerprintFindsItsIdentity ==
  (Answered /\ last.req.op = "fingerprint") =>
    LET ids == registry.identities
        key == toLowerCase(last.req.a.s)
    IN \A i, j \in DOMAIN ids :
         SameShortForm(ids, i, j) =>
           /\ key = toLowerCase(sliceLast(ids[j].gpgFingerprint.s, 8)) =>
                last.resp = Found(ids[j])
           /\ key = toLowerCase(ids[i].gpgFingerprint.s) => last.resp = Found(ids[i])
           /\ key = toLowerCase(ids[j].gpgFingerprint.s) => last.resp = Found(ids[j])

\* the last identity in read order that writes key to the fingerprint index
LastWriter(ids, key) ==
  LET writers == {x \in DOMAIN ids : key \in FingerprintForms(ids[x])}
  IN CHOOSE x \in writers : \A y \in writers : y <= x

\* C5 amended: of two identities whose fingerprints share the last 8
\* characters, the 8-character form returns the last-loaded identity that
\* has this short form, and each of the two is returned by its own full
\* fingerprint unless a later-loaded identity's fingerprint has that full
\* fingerprint as its full, last-16 or last-8 form.
C5_LastWriterWinsPerKey ==
  (Answered /\ last.req.op = "fingerprint") =>
    LET ids == registry.identities
        key == toLowerCase(last.req.a.s)
        NoLaterWriter(x) == \A y \in DOMAIN ids : y > x => key \notin FingerprintForms(ids[y])
    IN \A i, j \in DOMAIN ids :
         SameShortForm(ids, i, j) =>
           /\ key = toLowerCase(sliceLast(ids[j].gpgFingerprint.s, 8)) =>
                last.resp = Found(ids[LastWriter(ids, key)])
           /\ (key = toLowerCase(ids[i].gpgFingerprint.s) /\ NoLaterWriter(i)) =>
                last.resp = Found(ids[i])
           /\ (key = toLowerCase(ids[j].gpgFingerprint.s) /\ NoLaterWriter(j)) =>
                last.resp = Found(ids[j])

\* C5 witness: FPA's identity is loaded before FPB's, they share the last 8
\* characters, and the short form returns the later one
C5_Witness ==
  /\ Answered
  /\ last.req = Request("fingerprint", Param(toLowerCase(FPC)), Absent)
  /\ \E i, j \in DOMAIN registry.identities :
       /\ SameShortForm(registry.identities, i, j)
       /\ registry.identities[i].gpgFingerprint = Str(FPA)
       /\ registry.identities[j].gpgFingerprint = Str(FPB)
       /\ last.resp = Found(registry.identities[j])

\* the elements of s at the positions in good, in the order of s
Pick(s, good) ==
  [r \in 1..Cardinality(good) |->
     s[CHOOSE i \in good : Cardinality({g \in good : g <= i}) = r]]

\* the snapshot in builtFrom was returned by a loadRegistry call
Built == proc # "crashed_startup" /\ builtFrom.exists

\* a document whose index entries cannot be built: a handle that is no string
BadHandle(f) ==
  f.json /\ f.content = "object" /\ \E i \in DOMAIN f.raw.platforms.entries :
                                      f.raw.platforms.entries[i].v.t # "string"

\* C6 as stated: the snapshot holds one identity for every document that
\* JSON.parse accepted.
C6_EveryParsedDocumentIsAnIdentity ==
  Built =>
    LET files == builtFrom.files
        parsed == {i \in DOMAIN files : files[i].json /\ files[i].content # "corrupt"}
    IN Len(registry.identities) = Cardinality(parsed)

\* C6 amended: a build never aborts because of a document that cannot be
\* parsed, and the identities of the snapshot it returns are exactly the
\* normalized forms of the .json documents that parsed to a value other than
\* null, in directory read order (a document that is the JSON value null is
\* skipped like an unparsable one).
C6_IdentitiesAreTheNormalizedObjects ==
  /\ Built =>
       LET files == builtFrom.files
           objects == {i \in DOMAIN files : files[i].json /\ files[i].content = "object"}
       IN registry.identities = Pick([i \in DOMAIN files |-> normalizeIdentity(files[i].raw)],
                                     objects)
  /\ proc = "crashed_startup" => \E i \in DOMAIN fs.files : BadHandle(fs.files[i])
  /\ proc = "crashed_reload" =>
       ~fs.exists \/ \E i \in DOMAIN fs.files : BadHandle(fs.files[i])

\* C6 witness: one corrupt file and two valid files were read and the
\* snapshot has exactly 2 identities
C6_Witness ==
  /\ proc = "serving"
  /\ Len(builtFrom.files) = 3
  /\ Cardinality({i \in DOMAIN builtFrom.files : builtFrom.files[i].content = "corrupt"}) = 1
  /\ Cardinality({i \in DOMAIN builtFrom.files :
                    builtFrom.files[i].json /\ builtFrom.files[i].content = "object"}) = 2
  /\ Len(registry.identities) = 2
  /\ registry.identities[1] # registry.identities[2]

\* a parameter that is absent or does not start with a number
AbsentOrInvalid(p) == ~p.present \/ parseInt(p.s).nan

\* C7: List's effective offset is never negative and is 0 when offset is
\* absent or invalid; its effective limit is never negative, never above
\* 1000, and is 100 when limit is absent or invalid.
C7_ListLimitAndOffsetAreClamped ==
  (Answered /\ last.req.op = "list") =>
    /\ last.resp.offset >= 0
    /\ AbsentOrInvalid(last.req.b) => last.resp.offset = 0
    /\ last.resp.limit >= 0
    /\ last.resp.limit <= 1000
    /\ AbsentOrInvalid(last.req.a) => last.resp.limit = 100

\* the lowercased query is a substring of the lowercased name, description,
\* some handle or fingerprint
Contains(identity, query) ==
  LET In(v) == v.t = "string" /\ includes(toLowerCase(v.s), query)
  IN \/ In(identity.name)
     \/ In(identity.description)
     \/ \E i \in DOMAIN identity.platforms : In(identity.platforms[i].v)
     \/ In(identity.gpgFingerprint)

\* the limit a search asks for: 20 by default, at most 100
RequestedLimit(p) ==
  LET r == parseInt(p.s)
      asked == IF AbsentOrInvalid(p) \/ r.n = 0 THEN 20 ELSE r.n
  IN IF asked > 100 THEN 100 ELSE asked

\* C8: a search with a query of at least 2 characters returns the summaries
\* of the first limit identities, in snapshot order, that contain the query,
\* and never more than limit (default 20, at most 100) entries.
C8_SearchReturnsFirstLimitMatches ==
  (Answered /\ last.req.op = "search" /\ last.req.a.present /\ Len(last.req.a.s) >= 2) =>
    LET ids == registry.identities
        query == toLowerCase(last.req.a.s)
        matches == Pick(ids, {i \in DOMAIN ids : Contains(ids[i], query)})
        l == Max(RequestedLimit(last.req.b), 0)
    IN /\ last.resp.status = 200
       /\ last.resp.count <= l
       /\ last.resp.results = MapSummarize(SubSeq(matches, 1, Min(l, Len(matches))))

\* C9: Search answers InvalidQuery (400) exactly when the query is absent or
\* shorter than 2 characters, on every snapshot, and then never a success.
C9_InvalidQueryIffShorterThanTwo ==
  (Answered /\ last.req.op = "search") =>
    /\ (~last.req.a.present \/ Len(last.req.a.s) < 2)
         <=> (last.resp.kind = "InvalidQuery" /\ last.resp.status = 400)
    /\ last.resp.kind = "search" => (last.req.a.present /\ Len(last.req.a.s) >= 2)

\* C9 witness: a one-character query is refused on a snapshot that has
\* identities
C9_Witness ==
  /\ Answered
  /\ last.req = Request("search", Param(<<"s">>), Absent)
  /\ last.resp.status = 400
  /\ registry.identities # <<>>

\* the platform keys the index loop writes for the identities ids
PlatformsOf(ids) ==
  {toLowerCase(ids[i].platforms[n].k) : <<i, n>> \in
     {<<i, n>> \in (DOMAIN ids) \X (1..2) : n \in DOMAIN ids[i].platforms}}

\* C10: on a built index, Get by platform handle answers PlatformUnknown,
\* with the platform keys of the index, exactly when the lowercased platform
\* is not a key the build wrote; a known platform with an unknown handle
\* answers NotFound.
C10_PlatformUnknownIffNotIndexed ==
  (Answered /\ last.req.op = "platform" /\ builtFrom.exists) =>
    LET known == PlatformsOf(registry.identities)
        p == toLowerCase(last.req.a.s)
        h == toLowerCase(last.req.b.s)
    IN /\ p \notin known <=> last.resp.kind = "PlatformUnknown"
       /\ last.resp.kind = "PlatformUnknown" => last.resp.availablePlatforms = known
       /\ (p \in known /\ h \notin DOMAIN registry.indexes.byPlatform[p]) =>
            last.resp.kind = "NotFound"

\* the keys of the maps named field over the identities ids, those with a
\* truthy value only when nonEmpty
KeysOf(ids, field, nonEmpty) ==
  {ids[i][field][n].k : <<i, n>> \in
     {<<i, n>> \in (DOMAIN ids) \X (1..2) :
        /\ n \in DOMAIN ids[i][field]
        /\ nonEmpty => Truthy(ids[i][field][n].v)}}

\* the number of identities of ids whose map named field has the key k
HowMany(ids, field, k, nonEmpty) ==
  Cardinality({i \in DOMAIN ids :
     \E n \in DOMAIN ids[i][field] :
        /\ ids[i][field][n].k = k
        /\ nonEmpty => Truthy(ids[i][field][n].v)})

\* C11: Stats reports the number of identities, for every platform key the
\* number of identities whose platforms map has that key, and for every chain
\* the number of identities with a non-empty address for it; an empty or
\* falsy address is not counted.
C11_StatsCountIdentities ==
  (Answered /\ last.req.op = "stats") =>
    LET ids == registry.identities
        resp == last.resp
    IN /\ resp.status = 200
       /\ resp.totalIdentities = Len(ids)
       /\ DOMAIN resp.platforms = KeysOf(ids, "platforms", FALSE)
       /\ \A p \in DOMAIN resp.platforms :
            resp.platforms[p] = HowMany(ids, "platforms", p, FALSE)
       /\ DOMAIN resp.chains = KeysOf(ids, "wallets", TRUE)
       /\ \A c \in DOMAIN resp.chains :
            resp.chains[c] = HowMany(ids, "wallets", c, TRUE)

\* the wallets of a raw record by precedence: the address of the nested
\* wallet object, else the flat wallets map, else no entries
WalletsByPrecedence(raw) ==
  IF raw.wallet.present /\ raw.wallet.address.t # "undefined"
  THEN <<Entry(<<"b", "t", "c">>, raw.wallet.address)>>
  ELSE IF raw.wallets.present THEN raw.wallets.entries
  ELSE <<>>

\* C12: the wallets of every loaded identity are {btc: address} when the raw
\* record has a wallet.address, otherwise its flat wallets map, otherwise
\* empty; a wallet object without an address next to a flat map yields the
\* flat map.
C12_WalletsResolvedByPrecedence ==
  Built =>
    LET files == builtFrom.files
        objects == {i \in DOMAIN files : files[i].json /\ files[i].content = "object"}
    IN [i \in DOMAIN registry.identities |-> registry.identities[i].wallets]
         = Pick([i \in DOMAIN files |-> WalletsByPrecedence(files[i].raw)], objects)

\* a document with a platform handle that is empty or not a string
OddHandle(f) ==
  f.json /\ f.content = "object" /\ \E i \in DOMAIN f.raw.platforms.entries :
     LET v == f.raw.platforms.entries[i].v
     IN v.t # "string" \/ v.s = <<>>

\* the directory dir holds a document with an empty or absent handle
HoldsOddHandle(dir) == \E i \in DOMAIN dir.files : OddHandle(dir.files[i])

\* C13: a document whose platforms map has an empty or absent (null, not a
\* string) handle is loaded like any other, and Search over the resulting
\* registry succeeds: the handle matches nothing and the identity is found
\* through its other fields.
C13_SearchSurvivesEmptyOrAbsentHandles ==
  /\ proc = "crashed_startup" => ~HoldsOddHandle(fs)
  /\ proc = "crashed_reload" => ~HoldsOddHandle(fs)
  /\ (Answered /\ last.req.op = "search" /\ last.req.a.present
        /\ Len(last.req.a.s) >= 2 /\ HoldsOddHandle(builtFrom)) =>
       LET ids == registry.identities
           query == toLowerCase(last.req.a.s)
           matches == {i \in DOMAIN ids : Contains(ids[i], query)}
       IN /\ last.resp.status = 200
          /\ \A r \in Range(last.resp.results) :
               \E i \in matches : r = summarize(ids[i])
          /\ ~last.req.b.present => last.resp.count = Cardinality(matches)

\* the index a point lookup reads
IndexOf(op) ==
  CASE op = "fingerprint" -> "byFingerprint"
    [] op = "name" -> "byName"
    [] op = "wallet" -> "byWallet"

\* the keys the build inserted into the index a point lookup reads
InsertedKeys(op) ==
  IF IndexOf(op) \in DOMAIN registry.indexes
    THEN DOMAIN registry.indexes[IndexOf(op)]
    ELSE {}

\* C14: on every snapshot, Get by fingerprint, by name and by wallet answer
\* NotFound, carrying the key as it was sent, for every key the build did not
\* insert into the index they read: never an exception, never a value that is
\* not an identity of the snapshot.
C14_UninsertedKeyIsNotFound ==
  (Answered /\ last.req.op \in {"fingerprint", "name", "wallet"}) =>
    (toLowerCase(last.req.a.s) \notin InsertedKeys(last.req.op) =>
       last.resp = NotFound(<<last.req.a.s>>))

\* C15: List always succeeds with total equal to the number of identities of
\* the snapshot, whatever the effective limit l and offset o, and its page is
\* the summaries of identities[o .. o+l) in snapshot order: empty when o is at
\* or beyond the number of identities.
C15_ListPageIsTheRequestedRange ==
  (Answered /\ last.req.op = "list") =>
    LET ids == registry.identities
        o == last.resp.offset
        l == last.resp.limit
        range == {p \in DOMAIN ids : o < p /\ p <= o + l}
    IN /\ last.resp.status = 200
       /\ last.resp.total = Len(ids)
       /\ last.resp.identities = MapSummarize(Pick(ids, range))
       /\ o >= Len(ids) => last.resp.identities = <<>>

\* entry is the summarized projection of identity: its name, fingerprint,
\* description and whole platforms map, and of its proof of existence the
\* txid and network only, or null
IsSummaryOf(entry, identity) ==
  /\ DOMAIN entry = {"name", "gpgFingerprint", "description", "platforms", "proofOfExistence"}
  /\ entry.name = identity.name
  /\ entry.gpgFingerprint = identity.gpgFingerprint
  /\ entry.description = identity.description
  /\ entry.platforms = identity.platforms
  /\ DOMAIN entry.proofOfExistence = {"isNull", "txid", "network"}
  /\ entry.proofOfExistence.isNull <=> ~identity.proofOfExistence.present
  /\ ~entry.proofOfExistence.isNull =>
       /\ entry.proofOfExistence.txid = identity.proofOfExistence.txid
       /\ entry.proofOfExistence.network = identity.proofOfExistence.network

\* the identities the build in builtFrom stored: the normalized documents
StoredIdentities ==
  {normalizeIdentity(builtFrom.files[i].raw) : i \in
     {i \in DOMAIN builtFrom.files :
        builtFrom.files[i].json /\ builtFrom.files[i].content = "object"}}

\* C16: every entry that List or Search returns is the summarized projection
\* of an identity of the snapshot, and every identity that Get by
\* fingerprint, by name, by platform handle or by wallet returns is the full
\* stored identity, with its wallets, proofs and signature.
C16_SummariesInPagesFullIdentitiesInGets ==
  /\ (Answered /\ last.req.op = "list") =>
       \A r \in Range(last.resp.identities) :
          \E i \in DOMAIN registry.identities : IsSummaryOf(r, registry.identities[i])
  /\ (Answered /\ last.req.op = "search" /\ last.resp.kind = "search") =>
       \A r \in Range(last.resp.results) :
          \E i \in DOMAIN registry.identities : IsSummaryOf(r, registry.identities[i])
  /\ (Answered /\ last.req.op \in {"fingerprint", "name", "platform", "wallet"}
        /\ last.resp.kind = "identity") =>
       /\ last.resp.body \in StoredIdentities
       /\ {"wallets", "walletProof", "proofOfExistence", "signature"}
            \subseteq DOMAIN last.resp.body

\* C16 witness: a List page holds the summary, with a reduced proof of
\* existence, of an identity that has wallets, a wallet proof and a signature
C16_Witness ==
  /\ Answered
  /\ last.req.op = "list"
  /\ \E i \in DOMAIN registry.identities :
       LET identity == registry.identities[i]
       IN /\ identity.wallets # <<>>
          /\ identity.walletProof.t = "string"
          /\ identity.signature.t = "string"
          /\ identity.proofOfExistence.present
          /\ \E r \in Range(last.resp.identities) :
               IsSummaryOf(r, identity) /\ ~r.proofOfExistence.isNull

\* C17: no query (List, a Get, Search, Stats, health) changes the published
\* snapshot, neither its identities nor its index maps, however many queries
\* are answered between two refresh ticks; the snapshot changes only in a
\* step of the refresh task, which publishes the build of the directory.
C17_OnlyRefreshWritesSnapshot ==
  [][/\ last' # last => registry' = registry
     /\ registry' # registry =>
          /\ last' = last
          /\ builtFrom' = fs
          /\ registry' = loadRegistry(fs, FALSE).value]_vars

\* C17 witness: a reload published the snapshot of a full directory and a
\* search that found identities was answered from it, leaving it as built
C17_Witness ==
  /\ Answered
  /\ last.req.op = "search"
  /\ last.resp.kind = "search"
  /\ last.resp.count > 0
  /\ Len(builtFrom.files) = MaxFiles
  /\ registry = BuiltSnapshot

\* the keys identities[x] produces for each index: its fingerprint forms, its
\* lowercased name, its lowercased platform and handle pairs, its lowercased
\* non-empty wallet addresses
NameKeysOf(identity) ==
  IF Truthy(identity.name) THEN {toLowerCase(identity.name.s)} ELSE {}

PlatformKeysOf(identity) ==
  {<<toLowerCase(identity.platforms[n].k), toLowerCase(identity.platforms[n].v.s)>> :
     n \in DOMAIN identity.platforms}

WalletKeysOf(identity) ==
  {toLowerCase(identity.wallets[n].v.s) :
     n \in {n \in DOMAIN identity.wallets : Truthy(identity.wallets[n].v)}}

\* index holds exactly the keys that the identities ids produce (Keys(_) of
\* one identity), each with the position of the last identity in read order
\* that produces it
HoldsLastProducers(index, ids, Keys(_)) ==
  LET produced == [x \in DOMAIN ids |-> Keys(ids[x])]
  IN /\ DOMAIN index = UNION {produced[x] : x \in DOMAIN ids}
     /\ \A key \in DOMAIN index :
          /\ index[key] \in DOMAIN ids
          /\ key \in produced[index[key]]
          /\ \A y \in DOMAIN ids : key \in produced[y] => y <= index[key]

\* the snapshot reg is consistent: each of its four indexes holds exactly the
\* keys its own identities produce, each with the last producer in read order
ConsistentSnapshot(reg) ==
  DOMAIN reg.indexes # {} =>
    LET ids == reg.identities
        ix == reg.indexes
        pairs == UNION {{<<p, h>> : h \in DOMAIN ix.byPlatform[p]} :
                          p \in DOMAIN ix.byPlatform}
    IN /\ HoldsLastProducers(ix.byFingerprint, ids, FingerprintForms)
       /\ HoldsLastProducers(ix.byName, ids, NameKeysOf)
       /\ HoldsLastProducers(ix.byWallet, ids, WalletKeysOf)
       /\ HoldsLastProducers([k \in pairs |-> ix.byPlatform[k[1]][k[2]]], ids, PlatformKeysOf)

\* C18: in every reachable state the published snapshot is consistent: every
\* value of byFingerprint, byName, byPlatform and byWallet is an identity of
\* this snapshot's identities sequence, and under every key it is the last
\* identity in read order that produces the key.  Stated inductively: the
\* snapshot the process starts with is consistent (a process whose first
\* build raised has published none), and so is the new snapshot of every step
\* that changes it.
C18_IndexesHoldLastProducers ==
  /\ proc # "crashed_startup" => ConsistentSnapshot(registry)
  /\ [][registry' # registry => ConsistentSnapshot(registry')]_vars

\* C18 witness: a reload published a snapshot in which two identities produce
\* the same name key and the index holds the later one
C18_Witness ==
  /\ proc = "serving"
  /\ Len(builtFrom.files) = MaxFiles
  /\ \E x, y \in DOMAIN registry.identities :
       /\ x < y
       /\ NameKeysOf(registry.identities[x]) = NameKeysOf(registry.identities[y])
       /\ \E key \in NameKeysOf(registry.identities[y]) : registry.indexes.byName[key] = y

\* C19: the wallet addresses of all chains share one index: Get by wallet
\* with the address, in any letter case, of an identity that has it non-empty
\* under any chain returns the last-loaded identity that has this lowercased
\* address under any chain; an identity with only empty addresses has no
\* wallet index entry.
C19_WalletAddressesShareOneIndex ==
  /\ (Answered /\ last.req.op = "wallet") =>
       LET ids == registry.identities
           key == toLowerCase(last.req.a.s)
           holders == {x \in DOMAIN ids : key \in WalletKeysOf(ids[x])}
       IN holders # {} =>
            \E x \in holders :
               /\ \A y \in holders : y <= x
               /\ last.resp = Found(ids[x])
  /\ (proc # "crashed_startup" /\ "byWallet" \in DOMAIN registry.indexes) =>
       \A k \in DOMAIN registry.indexes.byWallet :
          WalletKeysOf(registry.identities[registry.indexes.byWallet[k]]) # {}

\* C19 witness: an address asked in upper case is held by an earlier identity
\* under one chain and by a later identity, which also has an empty address,
\* under another chain; the later identity is returned
C19_Witness ==
  /\ Answered
  /\ last.req.op = "wallet"
  /\ last.req.a.s # toLowerCase(last.req.a.s)
  /\ \E x, y \in DOMAIN registry.identities :
       LET a == registry.identities[x].wallets
           b == registry.identities[y].wallets
       IN /\ x < y
          /\ \E m \in DOMAIN a, n \in DOMAIN b :
               /\ a[m].k # b[n].k
               /\ Truthy(a[m].v) /\ Truthy(b[n].v)
               /\ toLowerCase(a[m].v.s) = toLowerCase(last.req.a.s)
               /\ toLowerCase(b[n].v.s) = toLowerCase(last.req.a.s)
          /\ \E n \in DOMAIN b : b[n].v.t = "string" /\ b[n].v.s = <<>>
          /\ last.resp = Found(registry.identities[y])

====
